---- MODULE Spec2Model ----
(***************************************************************************)
(* Model of the highlight rendering core of                                *)
(* meilidb-core/examples/from_file.rs: char_to_byte_range,                 *)
(* create_highlight_areas, crop_text and display_highlights, and the part  *)
(* of search_command that chains them for one attribute of one document.   *)
(*                                                                         *)
(* A text is a sequence of Unicode scalar values (code points); its bytes  *)
(* are those of its UTF-8 encoding, so byte offsets are sums of len_utf8.  *)
(* A Highlight is a record [attribute, char_index, char_length].           *)
(***************************************************************************)
EXTENDS Integers, Sequences, FiniteSets, TLC

VARIABLES
    doc_text,        \* the attribute's full text (search_command, line 326)
    doc_highlights,  \* doc.highlights of that attribute, sorted at line 317
    char_context,    \* command.char_context
    text,            \* the text handed to create_highlight_areas / display_highlights
    highlights,      \* the highlights handed to create_highlight_areas
    areas,           \* the boundary list (line 334)
    idx,             \* display_highlights: number of windows already consumed
    highlighted,     \* display_highlights: the `highlighted` local
    stdout,          \* display_highlights: the spans written so far
    query,           \* char_to_byte_range: the (index, length) it was called with
    byte_range,      \* char_to_byte_range: what it returned
    pc               \* position in the pipeline

vars == <<doc_text, doc_highlights, char_context, text, highlights, areas,
          idx, highlighted, stdout, query, byte_range, pc>>

----------------------------------------------------------------------------
(* Bounds of the model.                                                    *)

MaxTextLen == 3
MaxHighlights == 2
MaxCharIndex == 2
MaxCharLength == 2
MaxContext == 2

\* 'a' (U+0061, one byte in UTF-8) and the euro sign (U+20AC, three bytes).
Alphabet == {97, 8364}

\* "hello world"
HelloWorld == <<104, 101, 108, 108, 111, 32, 119, 111, 114, 108, 100>>

\* "lo wor"
LoWor == <<108, 111, 32, 119, 111, 114>>

SeqsUpTo(S, n) == UNION {[1..k -> S] : k \in 0..n}

Texts == SeqsUpTo(Alphabet, MaxTextLen)

Highlight(ci, cl) == [attribute |-> 0, char_index |-> ci, char_length |-> cl]

Highlights == {Highlight(ci, cl) : ci \in 0..MaxCharIndex, cl \in 0..MaxCharLength}

HighlightSeqs == SeqsUpTo(Highlights, MaxHighlights)

\* The order of `sort_unstable_by_key(|m| (m.char_index, m.char_length))`.
KeyLeq(a, b) ==
    \/ a.char_index < b.char_index
    \/ a.char_index = b.char_index /\ a.char_length <= b.char_length

IsSorted(hs) == \A k \in 1..(Len(hs) - 1) : KeyLeq(hs[k], hs[k + 1])

SortedHighlightSeqs == {hs \in HighlightSeqs : IsSorted(hs)}

Queries == (0..(MaxCharIndex + 1)) \X (0..MaxCharLength)

----------------------------------------------------------------------------
(* Standard library pieces the source relies on.                           *)

\* Variant of len_utf8: every character taken for one byte.
len_utf8_one(c) == 1

\* char::len_utf8
len_utf8(c) ==
    IF c < 128 THEN 1 ELSE IF c < 2048 THEN 2 ELSE IF c < 65536 THEN 3 ELSE 4

\* str::len: the length in bytes
RECURSIVE str_len(_)
str_len(s) == IF s = <<>> THEN 0 ELSE len_utf8(Head(s)) + str_len(Tail(s))

\* str::char_indices: the (byte offset, char) pairs, in order
char_indices(s) == [n \in 1..Len(s) |-> <<str_len(SubSeq(s, 1, n - 1)), s[n]>>]

\* str::is_char_boundary
is_char_boundary(s, b) ==
    \/ b = str_len(s)
    \/ \E n \in 1..Len(s) : char_indices(s)[n][1] = b

\* &text[start..end] panics unless this holds
slice_ok(s, start, end) ==
    /\ start <= end
    /\ end <= str_len(s)
    /\ is_char_boundary(s, start)
    /\ is_char_boundary(s, end)

\* usize::saturating_sub
saturating_sub(a, b) == IF a >= b THEN a - b ELSE 0

\* Iterator::skip and Iterator::take over the chars of a text
skip(s, n) == IF n >= Len(s) THEN <<>> ELSE SubSeq(s, n + 1, Len(s))

take(s, n) == IF n >= Len(s) THEN s ELSE SubSeq(s, 1, n)

\* Variant of sort_unstable: line 231 left out.
sort_skipped(v) == v

\* slice::sort_unstable on a Vec<usize>
sort_unstable(v) == SortSeq(v, LAMBDA a, b : a < b)

\* Variant of windows2: slice::chunks(2), the disjoint pairs.
chunks2(ranges) ==
    [k \in 1..(Len(ranges) \div 2) |-> <<ranges[2 * k - 1], ranges[2 * k]>>]

\* slice::windows(2): every pair of neighbours, overlapping
windows2(ranges) ==
    [k \in 1..(Len(ranges) - 1) |-> <<ranges[k], ranges[k + 1]>>]

----------------------------------------------------------------------------
(* char_to_byte_range, lines 188-204.                                      *)

\* The for loop of lines 192-201 from its n-th iteration on, and the return
\* of line 203.  byte_length is still 0 whenever the loop runs.
RECURSIVE char_to_byte_range_loop(_, _, _, _, _)
char_to_byte_range_loop(n, byte_index, index, length, indices) ==
    IF n >= Len(indices)
    THEN <<byte_index, 0>>
    ELSE LET i == indices[n + 1][1]
             c == indices[n + 1][2]
             bi == IF n = index THEN i ELSE byte_index
         IN  IF n + 1 = index + length
             THEN <<bi, i - bi + len_utf8(c)>>
             ELSE char_to_byte_range_loop(n + 1, bi, index, length, indices)

char_to_byte_range(index, length, s) ==
    char_to_byte_range_loop(0, 0, index, length, char_indices(s))

----------------------------------------------------------------------------
(* create_highlight_areas, lines 206-233.                                  *)

\* Variant of entry_insert: an occupied entry is never updated.
entry_keep_first(byte_indexes, byte_index, byte_length) ==
    IF byte_index \notin DOMAIN byte_indexes
    THEN byte_indexes @@ (byte_index :> byte_length)
    ELSE byte_indexes

\* The BTreeMap entry match of lines 214-221; the map is a function from
\* its keys to their values.
entry_insert(byte_indexes, byte_index, byte_length) ==
    IF byte_index \notin DOMAIN byte_indexes
    THEN byte_indexes @@ (byte_index :> byte_length)
    ELSE IF byte_indexes[byte_index] < byte_length
         THEN [byte_indexes EXCEPT ![byte_index] = byte_length]
         ELSE byte_indexes

\* The loop of lines 209-222 from the k-th highlight on.
RECURSIVE collect_byte_indexes(_, _, _, _)
collect_byte_indexes(k, byte_indexes, s, hs) ==
    IF k > Len(hs)
    THEN byte_indexes
    ELSE LET r == char_to_byte_range(hs[k].char_index, hs[k].char_length, s)
         IN  collect_byte_indexes(k + 1, entry_insert(byte_indexes, r[1], r[2]), s, hs)

\* The loop of lines 226-229: the map's entries in ascending key order.
RECURSIVE push_entries(_, _, _)
push_entries(title_areas, byte_indexes, keys) ==
    IF keys = {}
    THEN title_areas
    ELSE LET byte_index == CHOOSE k \in keys : \A j \in keys : k <= j
         IN  push_entries(
                 title_areas \o <<byte_index, byte_index + byte_indexes[byte_index]>>,
                 byte_indexes, keys \ {byte_index})

create_highlight_areas(s, hs) ==
    LET byte_indexes == collect_byte_indexes(1, <<>>, s, hs)
        pushed == push_entries(<<0>>, byte_indexes, DOMAIN byte_indexes)
    IN  sort_unstable(Append(pushed, str_len(s)))

----------------------------------------------------------------------------
(* crop_text, lines 244-266.                                               *)

\* Variant of within_window: only the highlight's start is compared.
within_window_index_only(m, start, context) ==
    m.char_index <= start + (context * 2)

\* The take_while closure of lines 257-259.
within_window(m, start, context) ==
    m.char_index + m.char_length <= start + (context * 2)

\* Variant of take_while: Iterator::filter, each highlight on its own.
filter_window(hs, start, context) ==
    SelectSeq(hs, LAMBDA m : within_window(m, start, context))

\* Iterator::take_while with that closure.
RECURSIVE take_while(_, _, _)
take_while(hs, start, context) ==
    IF hs = <<>> \/ ~within_window(Head(hs), start, context)
    THEN <<>>
    ELSE <<Head(hs)>> \o take_while(Tail(hs), start, context)

\* Variant of remap: char_index left as it was.
remap_unshifted(highlight, start) == highlight

\* The map closure of lines 260-262: char_index is a u16, and so is
\* `start as u16`.  A subtraction below 0 wraps in a release build and
\* panics in a debug build; it is modelled as wrapping, and the properties
\* compare the result with the unwrapped difference.
remap(highlight, start) ==
    [highlight EXCEPT !.char_index = (highlight.char_index - (start % 65536)) % 65536]

\* Variant of crop_chars: `context` characters instead of `context * 2`.
crop_chars_half(s, start, context) == take(skip(s, start), context)

\* Line 254.
crop_chars(s, start, context) == take(skip(s, start), context * 2)

crop_text(s, hs, context) ==
    LET char_index == IF hs = <<>> THEN 0 ELSE hs[1].char_index
        start == saturating_sub(char_index, context)
        kept == take_while(hs, start, context)
    IN  <<crop_chars(s, start, context),
          [k \in 1..Len(kept) |-> remap(kept[k], start)]>>

----------------------------------------------------------------------------
(* search_command, lines 333-335, for one attribute of one document, and   *)
(* display_highlights, lines 171-186, one window per step.                 *)

NoRun ==
    /\ areas = <<>>
    /\ idx = 0
    /\ highlighted = FALSE
    /\ stdout = <<>>
    /\ query = <<0, 0>>
    /\ byte_range = <<0, 0>>

\* The rendering pipeline of search_command: the highlights were sorted at
\* line 317; the text and the context are whatever the document and the
\* command line hold.  Scenario B of the specification is one of the inputs.
Init ==
    /\ \/ /\ doc_text \in Texts
          /\ doc_highlights \in SortedHighlightSeqs
          /\ char_context \in 0..MaxContext
       \/ /\ doc_text = HelloWorld
          /\ doc_highlights = <<Highlight(6, 5)>>
          /\ char_context = 3
    /\ text = <<>>
    /\ highlights = <<>>
    /\ NoRun
    /\ pc = "crop_text"

\* Line 333.
Crop ==
    /\ pc = "crop_text"
    /\ LET r == crop_text(doc_text, doc_highlights, char_context)
       IN  /\ text' = r[1]
           /\ highlights' = r[2]
    /\ pc' = "create_highlight_areas"
    /\ UNCHANGED <<doc_text, doc_highlights, char_context, areas, idx,
                   highlighted, stdout, query, byte_range>>

\* Line 334, and lines 172-173 of the call at line 335.
Areas ==
    /\ pc = "create_highlight_areas"
    /\ areas' = create_highlight_areas(text, highlights)
    /\ idx' = 0
    /\ highlighted' = FALSE
    /\ stdout' = <<>>
    /\ pc' = "display_highlights"
    /\ UNCHANGED <<doc_text, doc_highlights, char_context, text, highlights,
                   query, byte_range>>

\* One iteration of the loop of lines 175-183.  The slice of line 180
\* panics when it is out of range or cuts a character.
DisplayStep ==
    /\ pc = "display_highlights"
    /\ idx < Len(windows2(areas))
    /\ LET range == windows2(areas)[idx + 1]
           start == range[1]
           end == range[2]
       IN  IF slice_ok(text, start, end)
           THEN /\ stdout' = Append(stdout,
                        [start |-> start, end |-> end, highlighted |-> highlighted])
                /\ highlighted' = ~highlighted
                /\ idx' = idx + 1
                /\ pc' = pc
           ELSE /\ pc' = "panic"
                /\ UNCHANGED <<stdout, highlighted, idx>>
    /\ UNCHANGED <<doc_text, doc_highlights, char_context, text, highlights,
                   areas, query, byte_range>>

\* Line 185.
DisplayDone ==
    /\ pc = "display_highlights"
    /\ idx >= Len(windows2(areas))
    /\ pc' = "done"
    /\ UNCHANGED <<doc_text, doc_highlights, char_context, text, highlights,
                   areas, idx, highlighted, stdout, query, byte_range>>

Next == Crop \/ Areas \/ DisplayStep \/ DisplayDone

Spec == Init /\ [][Next]_vars

\* create_highlight_areas and display_highlights applied to any text and any
\* highlight sequence, sorted or not, in range or not.
InitAreas ==
    /\ text \in Texts
    /\ highlights \in HighlightSeqs
    /\ doc_text = text
    /\ doc_highlights = highlights
    /\ char_context = 0
    /\ NoRun
    /\ pc = "create_highlight_areas"

NextAreas == Areas \/ DisplayStep \/ DisplayDone

SpecAreas == InitAreas /\ [][NextAreas]_vars

\* char_to_byte_range applied to any text and any (index, length), in range
\* or not.  Scenario A of the specification is one of the inputs.
InitMapper ==
    /\ text \in Texts \cup {HelloWorld}
    /\ highlights = <<>>
    /\ doc_text = text
    /\ doc_highlights = highlights
    /\ char_context = 0
    /\ NoRun
    /\ pc = "char_to_byte_range"

CharToByteRange ==
    /\ pc = "char_to_byte_range"
    /\ \E q \in Queries \cup {<<6, 5>>} :
           /\ query' = q
           /\ byte_range' = char_to_byte_range(q[1], q[2], text)
    /\ pc' = "done"
    /\ UNCHANGED <<doc_text, doc_highlights, char_context, text, highlights,
                   areas, idx, highlighted, stdout>>

NextMapper == CharToByteRange

SpecMapper == InitMapper /\ [][NextMapper]_vars

----------------------------------------------------------------------------
(* Vocabulary of the properties: UTF-8 widths and byte positions computed  *)
(* from the encoding's definition, independently of the operators above.   *)

Utf8Width(c) ==
    CASE c \in 0..127 -> 1
      [] c \in 128..2047 -> 2
      [] c \in 2048..65535 -> 3
      [] OTHER -> 4

\* The byte position at which the character numbered k (from 0) starts;
\* for k = Len(s), the byte length of s.
RECURSIVE BytePos(_, _)
BytePos(s, k) == IF k = 0 THEN 0 ELSE BytePos(s, k - 1) + Utf8Width(s[k])

ByteLen(s) == BytePos(s, Len(s))

CharBoundaries(s) == {BytePos(s, k) : k \in 0..Len(s)}

HasMultiByte(s) == \E k \in 1..Len(s) : Utf8Width(s[k]) > 1

InRange(s, h) == h.char_index + h.char_length <= Len(s)

AllInRange(s, hs) == \A k \in 1..Len(hs) : InRange(s, hs[k])

WellFormed(s, hs) == IsSorted(hs) /\ AllInRange(s, hs)

\* The byte range [from, to) of an in-range highlight.
ByteFrom(s, h) == BytePos(s, h.char_index)

ByteTo(s, h) == BytePos(s, h.char_index + h.char_length)

PairwiseDisjoint(s, hs) ==
    \A j, k \in 1..Len(hs) :
        j < k => \/ ByteTo(s, hs[j]) <= ByteFrom(s, hs[k])
                 \/ ByteTo(s, hs[k]) <= ByteFrom(s, hs[j])

NoDuplicates(hs) == \A j, k \in 1..Len(hs) : j < k => hs[j] # hs[k]

NonDecreasing(v) == \A k \in 1..(Len(v) - 1) : v[k] <= v[k + 1]

StrictlyIncreasing(v) == \A k \in 1..(Len(v) - 1) : v[k] < v[k + 1]

Count(v, x) == Cardinality({k \in 1..Len(v) : v[k] = x})

Min(a, b) == IF a <= b THEN a ELSE b

Max(a, b) == IF a >= b THEN a ELSE b

\* crop_text has returned: text and highlights hold its result from here on.
Cropped == pc \in {"create_highlight_areas", "display_highlights", "done", "panic"}

CropReturned == pc = "create_highlight_areas"

\* create_highlight_areas has returned: areas holds its result from here on.
AreasBuilt == pc \in {"display_highlights", "done", "panic"}

AreasReturned == pc = "display_highlights" /\ idx = 0

\* 0, then each highlight's byte pair in order, then the byte length.
RECURSIVE Interleaved(_, _)
Interleaved(s, hs) ==
    IF hs = <<>>
    THEN <<>>
    ELSE <<ByteFrom(s, Head(hs)), ByteTo(s, Head(hs))>> \o Interleaved(s, Tail(hs))

\* The bytes display_highlights wrote, each with the state it was written in.
RECURSIVE EmittedBytes(_)
EmittedBytes(out) ==
    IF out = <<>>
    THEN <<>>
    ELSE [b \in 1..(Head(out).end - Head(out).start) |->
              <<Head(out).start + b - 1, Head(out).highlighted>>]
         \o EmittedBytes(Tail(out))

----------------------------------------------------------------------------
(* C1, under SpecAreas.                                                    *)

BoundaryEnds ==
    /\ areas[1] = 0
    /\ areas[Len(areas)] = ByteLen(text)
    /\ Len(areas) % 2 = 0

\* C1 as claimed: for a well-formed highlight set (sorted, every highlight
\* in range) the boundary list starts at 0, ends at the text's byte length,
\* is strictly increasing and has even length.
C1_StrictlyIncreasing ==
    (AreasReturned /\ WellFormed(text, highlights))
        => (BoundaryEnds /\ StrictlyIncreasing(areas))

\* C1 as amended: for a well-formed highlight set the boundary list starts
\* at 0, ends at the text's byte length, is non-decreasing (neighbours may be
\* equal) and has even length.
C1_BoundaryList ==
    (AreasReturned /\ WellFormed(text, highlights))
        => (BoundaryEnds /\ NonDecreasing(areas))

C1_Witness ==
    /\ AreasReturned
    /\ WellFormed(text, highlights)
    /\ Len(highlights) = 2
    /\ highlights[1].char_index < highlights[2].char_index
    /\ highlights[1].char_length > 0
    /\ highlights[2].char_length > 0
    /\ HasMultiByte(text)
    /\ ~StrictlyIncreasing(areas)

----------------------------------------------------------------------------
(* C2 and C3, under SpecMapper.                                            *)

Mapped == pc = "done"

\* C2 as claimed: for every in-range (char_index, char_length), a zero
\* char_length included, char_to_byte_range returns the byte position of the
\* character numbered char_index and the byte width of the char_length
\* characters from there.
C2_ByteRange ==
    (Mapped /\ query[1] + query[2] <= Len(text))
        => byte_range = <<BytePos(text, query[1]),
                          BytePos(text, query[1] + query[2]) - BytePos(text, query[1])>>

\* The part of C2 the code satisfies: the same, for char_length >= 1.
C2_ByteRangeNonEmpty ==
    (Mapped /\ query[1] + query[2] <= Len(text) /\ query[2] >= 1)
        => byte_range = <<BytePos(text, query[1]),
                          BytePos(text, query[1] + query[2]) - BytePos(text, query[1])>>

\* C3 as claimed: when char_index + char_length exceeds the character count,
\* char_to_byte_range returns exactly (0, 0).
C3_ZeroZero ==
    (Mapped /\ query[1] + query[2] > Len(text)) => byte_range = <<0, 0>>

\* C3 as amended: when char_index + char_length exceeds the character count,
\* char_to_byte_range returns byte_length 0, and byte_offset is the byte
\* position of the character numbered char_index when the text has such a
\* character, and 0 otherwise.
C3_OutOfRange ==
    (Mapped /\ query[1] + query[2] > Len(text))
        => byte_range = <<IF query[1] < Len(text) THEN BytePos(text, query[1]) ELSE 0, 0>>

C3_Witness ==
    /\ Mapped
    /\ query[1] + query[2] > Len(text)
    /\ query[1] < Len(text)
    /\ byte_range[1] > query[1]
    /\ byte_range[2] = 0

----------------------------------------------------------------------------
(* C4, C5 and C6, under Spec.                                              *)

ScenarioB ==
    /\ doc_text = HelloWorld
    /\ doc_highlights = <<Highlight(6, 5)>>
    /\ char_context = 3
    /\ CropReturned

\* C4 as claimed: "hello world", the highlight (6, 5) and context 3 give the
\* text "lo wor" and a highlight list that contains (3, 5).
C4_KeepsHighlight ==
    ScenarioB => /\ text = LoWor
                 /\ \E k \in 1..Len(highlights) : highlights[k] = Highlight(3, 5)

\* C4 as amended: "hello world", the highlight (6, 5) and context 3 give the
\* text "lo wor" and an empty highlight list (6 + 5 exceeds 3 + 2*3, so the
\* highlight is dropped).
C4_DropsHighlight ==
    ScenarioB => /\ text = LoWor
                 /\ highlights = <<>>

C4_Witness == ScenarioB /\ text # doc_text

Anchor == IF doc_highlights = <<>> THEN 0 ELSE doc_highlights[1].char_index

Start == Max(0, Anchor - char_context)

\* C5: the cropped text is the characters of the text at the positions
\* [start, min(start + 2*context, character count)), with
\* start = max(0, anchor - context) and anchor the first highlight's
\* char_index or 0; it has at most 2*context characters.
C5_CroppedText ==
    CropReturned =>
        LET stop == Min(Start + 2 * char_context, Len(doc_text))
        IN  /\ Len(text) = Max(stop - Start, 0)
            /\ \A j \in 1..Len(text) : text[j] = doc_text[Start + j]
            /\ Len(text) <= 2 * char_context

C5_Witness ==
    /\ CropReturned
    /\ Start > 0
    /\ Len(text) = 2 * char_context
    /\ Len(text) > 0
    /\ Start + Len(text) < Len(doc_text)

Fits(h) == h.char_index + h.char_length <= Start + 2 * char_context

\* The length of the longest prefix of doc_highlights in which every
\* highlight fits the window.
FittingPrefix ==
    CHOOSE n \in 0..Len(doc_highlights) :
        /\ \A k \in 1..n : Fits(doc_highlights[k])
        /\ n < Len(doc_highlights) => ~Fits(doc_highlights[n + 1])

\* C6: for sorted highlights, the kept highlights are the longest prefix in
\* which every highlight has char_index + char_length <= start + 2*context,
\* in order, each with char_index reduced by start (no wraparound, so the
\* result is >= 0) and char_length and attribute unchanged.
C6_KeptPrefix ==
    (CropReturned /\ IsSorted(doc_highlights)) =>
        /\ Len(highlights) = FittingPrefix
        /\ \A k \in 1..Len(highlights) :
               /\ doc_highlights[k].char_index - Start >= 0
               /\ highlights[k] =
                      [attribute |-> doc_highlights[k].attribute,
                       char_index |-> doc_highlights[k].char_index - Start,
                       char_length |-> doc_highlights[k].char_length]

C6_Witness ==
    /\ CropReturned
    /\ IsSorted(doc_highlights)
    /\ Len(highlights) + 2 <= Len(doc_highlights)
    /\ Fits(doc_highlights[Len(highlights) + 2])

----------------------------------------------------------------------------
(* C7, under SpecAreas.                                                    *)

MappedRanges ==
    {char_to_byte_range(highlights[k].char_index, highlights[k].char_length, text) :
        k \in 1..Len(highlights)}

MappedStarts == {r[1] : r \in MappedRanges}

\* The maximum byte length among the highlights mapped to start s.
LongestAt(s) ==
    CHOOSE l \in {r[2] : r \in {q \in MappedRanges : q[1] = s}} :
        \A r \in MappedRanges : r[1] = s => r[2] <= l

ExpectedCount(v) ==
    (IF v = 0 THEN 1 ELSE 0)
    + (IF v = ByteLen(text) THEN 1 ELSE 0)
    + Cardinality({s \in MappedStarts : s = v})
    + Cardinality({s \in MappedStarts : s + LongestAt(s) = v})

\* The ascending list made of 0, the byte length and, per distinct mapped
\* start s, the values s and s + L(s).
SortedFromMap ==
    /\ NonDecreasing(areas)
    /\ Len(areas) = 2 + 2 * Cardinality(MappedStarts)
    /\ \A v \in (0..ByteLen(text)) \cup {areas[k] : k \in 1..Len(areas)} :
           Count(areas, v) = ExpectedCount(v)

InterleavedList == <<0>> \o Interleaved(text, highlights) \o <<ByteLen(text)>>

\* C7 as claimed: the boundary list is the ascending list made of 0, the
\* byte length and, per distinct mapped start s, s and s + L(s); so an empty
\* highlight set gives [0, byte length], and a sorted, pairwise-disjoint set
\* of highlights gives 0, each highlight's (start, end) byte pair in order,
\* and the byte length.
C7_AnyDisjointSet ==
    AreasReturned =>
        /\ SortedFromMap
        /\ highlights = <<>> => areas = <<0, ByteLen(text)>>
        /\ (WellFormed(text, highlights) /\ NoDuplicates(highlights)
                /\ PairwiseDisjoint(text, highlights))
               => areas = InterleavedList

\* char_to_byte_range maps every highlight to its own byte range.
MapperExact ==
    \A k \in 1..Len(highlights) :
        char_to_byte_range(highlights[k].char_index, highlights[k].char_length, text)
            = <<ByteFrom(text, highlights[k]),
                ByteTo(text, highlights[k]) - ByteFrom(text, highlights[k])>>

\* The last consequence of C7 as claimed, on the inputs where
\* char_to_byte_range maps every highlight to its own byte range: it fails
\* there too (two highlights at one start, one of them empty, collapse), so
\* the failure of C7_AnyDisjointSet does not rest on what char_to_byte_range
\* returns for an empty highlight.
C7_AnyDisjointSetMapperExact ==
    (AreasReturned /\ WellFormed(text, highlights) /\ NoDuplicates(highlights)
        /\ PairwiseDisjoint(text, highlights) /\ MapperExact)
        => areas = InterleavedList

AllNonEmpty(hs) == \A k \in 1..Len(hs) : hs[k].char_length >= 1

\* C7 as amended: the same, the last consequence being for a sorted,
\* pairwise-disjoint set of in-range highlights whose char_length is >= 1.
C7_SortedFromMap ==
    AreasReturned =>
        /\ SortedFromMap
        /\ highlights = <<>> => areas = <<0, ByteLen(text)>>
        /\ (WellFormed(text, highlights) /\ NoDuplicates(highlights)
                /\ PairwiseDisjoint(text, highlights) /\ AllNonEmpty(highlights))
               => areas = InterleavedList

C7_Witness ==
    /\ AreasReturned
    /\ Len(highlights) = 2
    /\ Cardinality(MappedRanges) = 2
    /\ Cardinality(MappedStarts) = 1
    /\ \E s \in MappedStarts : s > 0 /\ LongestAt(s) > 1
    /\ HasMultiByte(text)

----------------------------------------------------------------------------
(* C8 and C9, under Spec.                                                  *)

Odd(i) == i % 2 = 1

\* C8 as claimed: display_highlights walks the boundary list two elements at
\* a time; pair i (from 0) is the span [boundary[2i], boundary[2i+1]),
\* highlighted iff i is odd, and no other span is emitted.
C8_DisjointPairs ==
    pc = "done" =>
        stdout = [k \in 1..(Len(areas) \div 2) |->
                     [start |-> areas[2 * k - 1], end |-> areas[2 * k],
                      highlighted |-> Odd(k - 1)]]

\* C8 as amended: display_highlights walks every pair of neighbours of the
\* boundary list; window i (from 0, up to the list's length minus 2) is the
\* span [boundary[i], boundary[i+1]), highlighted iff i is odd, and no other
\* span is emitted.
C8_Windows ==
    /\ \A k \in 1..Len(stdout) :
           stdout[k] = [start |-> areas[k], end |-> areas[k + 1],
                        highlighted |-> Odd(k - 1)]
    /\ pc = "done" => Len(stdout) = Len(areas) - 1

C8_Witness ==
    /\ pc = "done"
    /\ Len(stdout) >= 5
    /\ \E k \in 1..Len(stdout) :
           stdout[k].highlighted /\ stdout[k].end - stdout[k].start > 1
    /\ \E k \in 1..Len(stdout) :
           ~stdout[k].highlighted /\ stdout[k].end > stdout[k].start

\* C9: for sorted, in-range highlights, every kept highlight lies inside the
\* cropped text, every boundary is a character boundary of the cropped text
\* and at most its byte length, and every slice display_highlights takes has
\* start <= end and is valid (the slice of line 180 never panics).
C9_SlicingSafe ==
    WellFormed(doc_text, doc_highlights) =>
        /\ Cropped => \A k \in 1..Len(highlights) : InRange(text, highlights[k])
        /\ AreasBuilt =>
               \A k \in 1..Len(areas) :
                   areas[k] \in CharBoundaries(text) /\ areas[k] <= ByteLen(text)
        /\ pc # "panic"
        /\ \A k \in 1..Len(stdout) :
               /\ stdout[k].start <= stdout[k].end
               /\ stdout[k].end <= ByteLen(text)
               /\ stdout[k].start \in CharBoundaries(text)
               /\ stdout[k].end \in CharBoundaries(text)

C9_Witness ==
    /\ pc = "done"
    /\ WellFormed(doc_text, doc_highlights)
    /\ Start > 0
    /\ Len(text) < Len(doc_text)
    /\ highlights # <<>>
    /\ highlights[1].char_length > 0
    /\ HasMultiByte(text)

----------------------------------------------------------------------------
(* C10, under SpecAreas.                                                   *)

InSomeHighlight(b) ==
    \E k \in 1..Len(highlights) :
        ByteFrom(text, highlights[k]) <= b /\ b < ByteTo(text, highlights[k])

NonOverlapping ==
    /\ AllInRange(text, highlights)
    /\ AllNonEmpty(highlights)
    /\ PairwiseDisjoint(text, highlights)

\* C10: for in-range highlights with char_length >= 1 and pairwise
\* non-overlapping byte ranges, display_highlights on the output of
\* create_highlight_areas emits every byte of the text exactly once, in
\* order, highlighted iff the byte lies inside some highlight's byte range.
C10_RendersExactly ==
    NonOverlapping =>
        /\ pc # "panic"
        /\ pc = "done" =>
               EmittedBytes(stdout) =
                   [b \in 1..ByteLen(text) |-> <<b - 1, InSomeHighlight(b - 1)>>]

C10_Witness ==
    /\ pc = "done"
    /\ NonOverlapping
    /\ Len(highlights) = 2
    /\ ByteFrom(text, highlights[2]) = 0
    /\ ByteTo(text, highlights[2]) = ByteFrom(text, highlights[1])
    /\ ByteTo(text, highlights[1]) = ByteLen(text)
    /\ HasMultiByte(text)

====
